---- MODULE Spec2Model ----
(***************************************************************************)
(* Model of nova/virt/libvirt/volume.py: the libvirt volume drivers, and   *)
(* in particular LibvirtISCSIVolumeDriver.connect_volume and               *)
(* disconnect_volume, run by several caller threads against one iscsiadm   *)
(* node database, one /dev tree and one list of attached block devices.    *)
(*                                                                         *)
(* Strings (paths, IQNs, command lines) are sequences of tokens, so that   *)
(* formatting, prefix tests and basename are computed, not assumed.        *)
(***************************************************************************)
EXTENDS Integers, Sequences, FiniteSets, TLC

\* ---------------------------------------------------------------- bounds
NumThreads == 2
MaxCalls == 2
MaxScanTries == 2
MaxFaults == 1

Threads == 1..NumThreads
Records == {"rA", "rB"}
NoThread == 0
Missing == "<missing>"
NoPath == <<>>

\* ------------------------------------------------- configuration (FLAGS)
volume_group == "nova-volumes"
volume_name_template == <<"volume-", "%s">>

\* ------------------------------------------------------- string helpers
\* python's  template % arg  for a template with one %s
RECURSIVE Format(_, _)
Format(tpl, arg) ==
    IF tpl = <<>> THEN <<>>
    ELSE IF Head(tpl) = "%s" THEN arg \o Format(Tail(tpl), arg)
    ELSE <<Head(tpl)>> \o Format(Tail(tpl), arg)

\* str.startswith
startswith(s, prefix) ==
    /\ Len(prefix) <= Len(s)
    /\ SubSeq(s, 1, Len(prefix)) = prefix

IsDirToken(tok) == tok \in {"/", "/dev/", "/dev/disk/by-path/", "/sys/block/"}

\* os.path.basename: what follows the last directory separator
RECURSIVE basename(_)
basename(p) ==
    IF p = <<>> THEN <<>>
    ELSE IF \E i \in 2..Len(p) : IsDirToken(p[i]) THEN basename(Tail(p))
    ELSE IF IsDirToken(Head(p)) THEN Tail(p)
    ELSE p

\* ec2utils.id_to_ec2_vol_id on the volume ids of the model
id_to_ec2_vol_id(volume_id) ==
    CASE volume_id = "v1" -> "vol-00000001"
      [] volume_id = "v2" -> "vol-00000002"

\* "/dev/%s/%s" % (FLAGS.volume_group, ec2utils.id_to_ec2_vol_id(volume_id))
Ec2Path(volume_id) ==
    <<"/dev/", volume_group, "/", id_to_ec2_vol_id(volume_id)>>

\* ("/dev/%s/%s" % (FLAGS.volume_group, FLAGS.volume_name_template)) % volume_id
UuidPath(volume_id) ==
    Format(<<"/dev/", volume_group, "/">> \o volume_name_template, <<volume_id>>)

\* "/dev/disk/by-path/ip-%s-iscsi-%s-lun-" % (target_portal, target_iqn)
DevicePrefix(portal, iqn) ==
    <<"/dev/disk/by-path/", "ip-", portal, "-iscsi-">> \o iqn \o <<"-lun-">>

\* 'iqn.2010-10.org.openstack:%s' % FLAGS.volume_name_template,
\* then % device_ec2id
Ec2TargetIqn(device_ec2id) ==
    Format(<<"iqn.2010-10.org.openstack:">> \o volume_name_template, device_ec2id)

\* ------------------------------------------------------------ the world
Portal == "10.0.0.5:3260"
Iqn1 == <<"iqn.2020-01.example:tgt1">>
Volumes == {"v1", "v2"}
Luns == {"0", "1"}

\* what the storage target exports
ServedKeys == {<<Iqn1, Portal>>}
ServedDevices == {DevicePrefix(Portal, Iqn1) \o <<l>> : l \in Luns}

AllIqns == {Iqn1} \cup {Ec2TargetIqn(Ec2Path(v)) : v \in Volumes}
AllKeys == {<<i, Portal>> : i \in AllIqns}
LegacyPaths == {Ec2Path(v) : v \in Volumes} \cup {UuidPath(v) : v \in Volumes}

\* kernel name of the SCSI disk behind a by-path node
KernelName(dev) ==
    IF dev[Len(dev)] = "0" THEN "sdb" ELSE "sdc"

DeleteCtlFile(shortname) ==
    <<"/sys/block/">> \o shortname \o <<"/device/delete">>

SessionStates == {"Absent", "Registered", "LoggedIn", "LoggedOut", "Deleted"}
SessionExists(s) == s \in {"Registered", "LoggedIn", "LoggedOut"}


\* ---------------------------------------------------------------- state
VARIABLES
    rec,            \* connection_info['data'] of each caller-owned record
    lock,           \* utils.synchronized: holder of each named lock
    pc,             \* position of each caller thread
    call,           \* the call a thread is making: operation and record
    rec0,           \* the record as it was when the call was made
    tries,          \* local 'tries' of connect_volume
    host_device,    \* local 'host_device' of connect_volume
    devices,        \* local 'devices' of disconnect_volume
    trace,          \* invocations, sleeps and existence checks of the call
    last,           \* the call that just completed, until the next begins
    pending,        \* disks connect_volume described, not yet attached
    session,        \* iscsiadm node database: state of each (iqn, portal)
    devnodes,       \* /dev/disk/by-path nodes that exist
    legacy,         \* kind of file at each legacy /dev/<vg>/... path
    active,         \* connection.get_all_block_devices()
    budget,         \* abnormal tool answers still to come
    ncalls,         \* calls made so far
    num_iscsi_scan_tries,   \* FLAGS.num_iscsi_scan_tries
    prev,           \* last successful connect not followed by any change
    callers,        \* the threads that call the driver
    aborted,        \* record of the connect that just failed, until a call
                    \* other than a connect of that record is made
    login_key       \* per record: the (iqn, portal) its last successful
                    \* connect logged in to, until its next disconnect

vars == <<rec, lock, pc, call, rec0, tries, host_device, devices, trace,
          last, pending, session, devnodes, legacy, active, budget, ncalls,
          num_iscsi_scan_tries, prev, callers, aborted,
                   login_key>>

\* ------------------------------------------------------ the file system
os_path_exists(p) ==
    \/ p \in devnodes
    \/ p \in DOMAIN legacy /\ legacy[p] \in {"link", "node"}
    \/ \E d \in devnodes : p = DeleteCtlFile(<<KernelName(d)>>)

os_path_islink(p) ==
    \/ p \in devnodes
    \/ p \in DOMAIN legacy /\ legacy[p] \in {"link", "broken"}

os_path_realpath(p) ==
    IF p \in devnodes THEN <<"/dev/", KernelName(p)>> ELSE p

DevicesOf(key) ==
    IF key \in ServedKeys
    THEN {DevicePrefix(key[2], key[1]) \o <<l>> : l \in Luns}
    ELSE {}

\* ------------------------------------------- the initiator tool iscsiadm
IsUpdate(command) == Len(command) = 6 /\ command[2] = "update"

Answer(codes, st) == {[code |-> c, st |-> st, fault |-> FALSE] : c \in codes}

\* exit code of "no records found" (255 before open-iscsi 2.0-871; that
\* answer is among the abnormal ones below)
NotFound == {21}

\* answers of a working iscsiadm for the node record in state s
IscsiadmNormal(command, s, served) ==
    CASE command = <<>> ->
            IF SessionExists(s) THEN Answer({0}, s) ELSE Answer(NotFound, s)
      [] command = <<"--op", "new">> ->
            Answer({0}, IF SessionExists(s) THEN s ELSE "Registered")
      [] IsUpdate(command) ->
            IF SessionExists(s) THEN Answer({0}, s) ELSE Answer(NotFound, s)
      [] command = <<"--login">> ->
            IF ~SessionExists(s) THEN Answer(NotFound, s)
            ELSE IF s = "LoggedIn" THEN Answer({255}, s)
            ELSE IF served THEN Answer({0}, "LoggedIn")
            ELSE Answer({8}, s)
      [] command = <<"--rescan">> ->
            IF s = "LoggedIn" THEN Answer({0}, s) ELSE Answer(NotFound, s)
      [] command = <<"--logout">> ->
            IF s = "LoggedIn" THEN Answer({0}, "LoggedOut")
            ELSE Answer(NotFound, s)
      [] command = <<"--op", "delete">> ->
            IF s = "LoggedIn" THEN Answer({1}, s)
            ELSE IF SessionExists(s) THEN Answer({0}, "Deleted")
            ELSE Answer(NotFound, s)

\* every answer the tool can give now: the normal ones, and while the
\* budget lasts an abnormal exit code that changes nothing
Iscsiadm(command, key) ==
    LET normal == IscsiadmNormal(command, session[key], key \in ServedKeys)
        codes == {o.code : o \in normal}
    IN  normal \cup
        (IF budget > 0
         THEN {[code |-> c, st |-> session[key], fault |-> TRUE] :
                    c \in {1, 21, 255} \ codes}
         ELSE {})


\* ------------------------------------------------------------- records
NoConf ==
    [source_type |-> "", driver_name |-> "", driver_format |-> "",
     driver_cache |-> "", source_path |-> NoPath, target_dev |-> "",
     target_bus |-> "", serial |-> ""]

NoCall == [op |-> "none", r |-> "rA"]
NoKey == <<>>
NoPrev == [r |-> "none", conf |-> NoConf, again |-> NoThread]

mount_device(r) == IF r = "rA" THEN "vdb" ELSE "vdc"

\* the two connection records: two volumes of one target
RecordA ==
    [volume_id |-> "v1", target_portal |-> Portal, target_iqn |-> Iqn1,
     target_lun |-> "0", auth_method |-> Missing, auth_username |-> Missing,
     auth_password |-> Missing, device_path |-> NoPath, serial |-> "v1"]

RecordB(lun, auth) ==
    [volume_id |-> "v2", target_portal |-> Portal, target_iqn |-> Iqn1,
     target_lun |-> lun, auth_method |-> auth,
     auth_username |-> IF auth = Missing THEN Missing ELSE "user",
     auth_password |-> IF auth = Missing THEN Missing ELSE "secret",
     device_path |-> NoPath, serial |-> "v2"]

\* ------------------------------------------------ utils.synchronized
ConnectLockName == "connect_volume"
DisconnectLockName_OwnLock == "disconnect_volume"
DisconnectLockName == "connect_volume"
LockName(op) == IF op = "connect" THEN ConnectLockName ELSE DisconnectLockName
LockNames == {ConnectLockName, DisconnectLockName}

Synchronized_ConnectUndecorated(op) == op = "disconnect"

\* which methods of the driver carry the decorator
Synchronized(op) == op \in {"connect", "disconnect"}

\* entering the decorated function: wait until the named lock is free
synchronized_enter(t, name) ==
    /\ lock[name] = NoThread
    /\ lock' = [lock EXCEPT ![name] = t]

\* leaving it, by return or by exception
synchronized_exit(t, name) ==
    lock' = [lock EXCEPT ![name] = IF @ = t THEN NoThread ELSE @]

NoLast ==
    [t |-> NoThread, op |-> "none", r |-> "rA", status |-> "none",
     conf |-> NoConf, error |-> "", trace |-> <<>>, rec0 |-> RecordA,
     rec1 |-> RecordA, devices |-> {}, after |-> "none", login |-> NoKey]

\* the inputs: the second record, the legacy files of volume v1, the flag
Inputs(luns, auths, ec2kinds, uuidkinds, scan_tries) ==
    /\ \E lun \in luns, auth \in auths :
            rec = [r \in Records |->
                      IF r = "rA" THEN RecordA ELSE RecordB(lun, auth)]
    /\ \E e \in ec2kinds, u \in uuidkinds :
            legacy = [p \in LegacyPaths |->
                         IF p = Ec2Path("v1") THEN e
                         ELSE IF p = UuidPath("v1") THEN u
                         ELSE "absent"]
    /\ num_iscsi_scan_tries \in scan_tries

\* one caller with every legacy layout, or every second record, or every
\* try budget; several callers with one input; the tool may answer
\* abnormally to one caller on a host without legacy files, with the
\* largest try budget and credentials in the second record
Init ==
    /\ \E n \in 1..NumThreads :
        /\ callers = 1..n
        /\ IF n = 1
           THEN \/ Inputs({"1"}, {"CHAP"},
                          {"absent", "link", "broken", "node"},
                          {"absent", "link"}, {MaxScanTries})
                \/ Inputs({"1", Missing}, {Missing, "CHAP"},
                          {"absent"}, {"absent"}, {MaxScanTries})
                \/ Inputs({"1"}, {Missing},
                          {"absent"}, {"absent"}, 0..MaxScanTries)
           ELSE Inputs({"1"}, {Missing}, {"absent"}, {"absent"}, {1})
        /\ budget = IF /\ n = 1
                       /\ \A p \in LegacyPaths : legacy[p] = "absent"
                       /\ num_iscsi_scan_tries = MaxScanTries
                       /\ rec["rB"] = RecordB("1", "CHAP")
                    THEN MaxFaults
                    ELSE 0
    /\ lock = [n \in LockNames |-> NoThread]
    /\ pc = [t \in Threads |-> "idle"]
    /\ call = [t \in Threads |-> NoCall]
    /\ rec0 = [t \in Threads |-> RecordA]
    /\ tries = [t \in Threads |-> 0]
    /\ host_device = [t \in Threads |-> NoPath]
    /\ devices = [t \in Threads |-> {}]
    /\ trace = [t \in Threads |-> <<>>]
    /\ last = NoLast
    /\ pending = {}
    /\ session = [k \in AllKeys |-> "Absent"]
    /\ devnodes = {}
    /\ active = {}
    /\ ncalls = 0
    /\ prev = NoPrev
    /\ aborted = "none"
    /\ login_key = [r \in Records |-> NoKey]


\* ------------------------------------------------------- call plumbing
Key(data) == <<data.target_iqn, data.target_portal>>

Event(command, data, out) ==
    [cmd |-> command, iqn |-> data.target_iqn, portal |-> data.target_portal,
     input |-> "", code |-> out.code, abnormal |-> out.fault]

\* os.path.exists(path) as the call saw it
ExistsEvent(path, found) ==
    [cmd |-> <<"exists">> \o path, iqn |-> <<>>, portal |-> "", input |-> "",
     code |-> IF found THEN 1 ELSE 0, abnormal |-> FALSE]

\* the thread goes on in the body, having issued the invocations tr
Stay(t, label, tr) ==
    /\ pc' = [pc EXCEPT ![t] = label]
    /\ trace' = [trace EXCEPT ![t] = tr]
    /\ UNCHANGED <<lock, call, rec0, last, pending, aborted,
                   login_key>>

Continue(t, label, tr) ==
    /\ Stay(t, label, tr)
    /\ UNCHANGED <<tries, host_device, devices>>

\* the (iqn, portal) the --login of the invocations tr was issued for
LoginKey(tr) ==
    LET j == CHOOSE j \in 1..Len(tr) : tr[j].cmd = <<"--login">>
    IN  <<tr[j].iqn, tr[j].portal>>

\* the call is over: its outcome is kept, its frame is gone
Completed(t, status, conf, error, tr, rec1) ==
    /\ pc' = [pc EXCEPT ![t] = "idle"]
    /\ last' = [t |-> t, op |-> call[t].op, r |-> call[t].r,
                status |-> status, conf |-> conf, error |-> error,
                trace |-> tr, rec0 |-> rec0[t], rec1 |-> rec1,
                devices |-> devices[t], after |-> aborted,
                login |-> login_key[call[t].r]]
    /\ login_key' = IF call[t].op = "disconnect"
                    THEN [login_key EXCEPT ![call[t].r] = NoKey]
                    ELSE IF status = "returned"
                    THEN [login_key EXCEPT ![call[t].r] = LoginKey(tr)]
                    ELSE login_key
    /\ aborted' = IF call[t].op = "connect" /\ status = "raised"
                  THEN call[t].r
                  ELSE "none"
    /\ call' = [call EXCEPT ![t] = NoCall]
    /\ rec0' = [rec0 EXCEPT ![t] = RecordA]
    /\ trace' = [trace EXCEPT ![t] = <<>>]
    /\ tries' = [tries EXCEPT ![t] = 0]
    /\ host_device' = [host_device EXCEPT ![t] = NoPath]
    /\ devices' = [devices EXCEPT ![t] = {}]
    /\ pending' = IF status = "returned" /\ call[t].op = "connect"
                  THEN pending \cup {conf.source_path}
                  ELSE pending

\* the call returns conf, leaving the record as rec1
Return(t, conf, tr, rec1) ==
    /\ Completed(t, "returned", conf, "", tr, rec1)
    /\ synchronized_exit(t, LockName(call[t].op))

Raise_KeepsLock(t, error, tr) ==
    /\ Completed(t, "raised", NoConf, error, tr, rec[call[t].r])
    /\ UNCHANGED lock

\* an exception leaves the call
Raise(t, error, tr) ==
    /\ Completed(t, "raised", NoConf, error, tr, rec[call[t].r])
    /\ synchronized_exit(t, LockName(call[t].op))

\* utils.execute: the exit code is accepted or ProcessExecutionError
Accepted(code, check_exit_code) == code \in check_exit_code

\* _run_iscsiadm: what the invocation does to the world
_run_iscsiadm(iscsi_properties, iscsi_command, out) ==
    /\ session' = [session EXCEPT ![Key(iscsi_properties)] = out.st]
    /\ budget' = IF out.fault THEN budget - 1 ELSE budget
    /\ devnodes' = IF iscsi_command = <<"--logout">> /\ out.code = 0
                   THEN devnodes \ DevicesOf(Key(iscsi_properties))
                   ELSE devnodes

\* _iscsiadm_update
UpdateCommand(property_key, property_value) ==
    <<"--op", "update", "-n", property_key, "-v", property_value>>

\* what an iscsiadm step of the body leaves alone
IscsiadmFrame ==
    UNCHANGED <<rec, legacy, active, ncalls, num_iscsi_scan_tries, prev,
                callers>>

\* a step of the body that runs iscsiadm and goes on or raises
IscsiadmStep(t, iscsi_command, check_exit_code, next) ==
    \E out \in Iscsiadm(iscsi_command, Key(rec[call[t].r])) :
        LET tr == Append(trace[t],
                         Event(iscsi_command, rec[call[t].r], out))
        IN  /\ _run_iscsiadm(rec[call[t].r], iscsi_command, out)
            /\ IF Accepted(out.code, check_exit_code)
               THEN Continue(t, next, tr)
               ELSE Raise(t, "ProcessExecutionError", tr)
            /\ IscsiadmFrame

\* exit codes each invocation accepts
DefaultCheck == {0}
ProbeNotFound_Only255 == {255}
ProbeNotFound == {21, 255}
LoginCheck_Default == {0}
LoginCheck == {0, 255}
ConnectStartupCheck_Tolerant == {0, 21, 255}
ConnectStartupCheck == DefaultCheck
TeardownCheck_Default == {0}
TeardownCheck == {0, 21, 255}

\* ------------------------------------------------------ making a call
Call(t, op, r) ==
    /\ t \in callers
    /\ pc[t] = "idle"
    /\ ncalls < MaxCalls
    /\ ncalls' = ncalls + 1
    /\ call' = [call EXCEPT ![t] = [op |-> op, r |-> r]]
    /\ rec0' = [rec0 EXCEPT ![t] = rec[r]]
    /\ pc' = [pc EXCEPT ![t] = "wait_lock"]
    /\ last' = NoLast
    /\ aborted' = IF op = "connect" /\ r = aborted THEN aborted ELSE "none"
    /\ UNCHANGED <<rec, lock, tries, host_device, devices, trace, pending,
                   session, devnodes, legacy, active, budget,
                   num_iscsi_scan_tries, prev, callers, login_key>>

\* the caller tries the connect that just failed once more, also when the
\* bound on the calls is used up
Retry(t, r) ==
    /\ t \in callers
    /\ pc[t] = "idle"
    /\ aborted = r
    /\ ncalls = MaxCalls
    /\ ncalls' = ncalls + 1
    /\ call' = [call EXCEPT ![t] = [op |-> "connect", r |-> r]]
    /\ rec0' = [rec0 EXCEPT ![t] = rec[r]]
    /\ pc' = [pc EXCEPT ![t] = "wait_lock"]
    /\ last' = NoLast
    /\ UNCHANGED <<rec, lock, tries, host_device, devices, trace, pending,
                   session, devnodes, legacy, active, budget,
                   num_iscsi_scan_tries, prev, callers, aborted,
                   login_key>>

\* the decorator lets the thread into the body
Acquire(t) ==
    /\ pc[t] = "wait_lock"
    /\ IF Synchronized(call[t].op)
       THEN synchronized_enter(t, LockName(call[t].op))
       ELSE UNCHANGED lock
    /\ pc' = [pc EXCEPT ![t] =
                 IF call[t].op = "connect" THEN "probe" ELSE "list"]
    /\ prev' = IF call[t].op = "connect" /\ prev.r = call[t].r
               THEN [prev EXCEPT !.again = t]
               ELSE NoPrev
    /\ last' = NoLast
    /\ UNCHANGED <<rec, call, rec0, tries, host_device, devices, trace,
                   pending, session, devnodes, legacy, active, budget, ncalls,
                   num_iscsi_scan_tries, callers, aborted,
                   login_key>>

\* ------------------------------------ LibvirtVolumeDriver.connect_volume
BaseConnectVolume_Ec2First(connection_info_data, mount) ==
    LET volume_id == connection_info_data.volume_id
        local_volume_ec2id == Ec2Path(volume_id)
        local_volume_uuid == UuidPath(volume_id)
    IN  [source_type |-> "block",
         driver_name |-> "qemu",
         driver_format |-> "raw",
         driver_cache |-> "none",
         source_path |-> IF os_path_islink(local_volume_ec2id)
                         THEN local_volume_ec2id
                         ELSE IF os_path_islink(local_volume_uuid)
                         THEN local_volume_uuid
                         ELSE connection_info_data.device_path,
         target_dev |-> mount,
         target_bus |-> "virtio",
         serial |-> connection_info_data.serial]

BaseConnectVolume(connection_info_data, mount) ==
    LET volume_id == connection_info_data.volume_id
        local_volume_ec2id == Ec2Path(volume_id)
        local_volume_uuid == UuidPath(volume_id)
        is_local_volume_ec2id == os_path_islink(local_volume_ec2id)
        is_local_volume_uuid == os_path_islink(local_volume_uuid)
    IN  [source_type |-> "block",
         driver_name |-> "qemu",
         driver_format |-> "raw",
         driver_cache |-> "none",
         source_path |-> IF is_local_volume_uuid THEN local_volume_uuid
                         ELSE IF is_local_volume_ec2id THEN local_volume_ec2id
                         ELSE connection_info_data.device_path,
         target_dev |-> mount,
         target_bus |-> "virtio",
         serial |-> connection_info_data.serial]

\* ------------------------------- LibvirtISCSIVolumeDriver.connect_volume
AfterRegistration_SkipAuth(t) == "login"

\* if iscsi_properties.get('auth_method')
AfterRegistration(t) ==
    IF rec[call[t].r].auth_method # Missing THEN "auth_method" ELSE "login"

ConnectProbe_NeverCreates(t) ==
    /\ pc[t] = "probe"
    /\ \E out \in Iscsiadm(<<>>, Key(rec[call[t].r])) :
        LET tr == Append(trace[t], Event(<<>>, rec[call[t].r], out))
        IN  /\ _run_iscsiadm(rec[call[t].r], <<>>, out)
            /\ IF Accepted(out.code, DefaultCheck) \/ out.code \in ProbeNotFound
               THEN Continue(t, AfterRegistration(t), tr)
               ELSE Raise(t, "ProcessExecutionError", tr)
    /\ IscsiadmFrame

\* the probe of the node record: not found is answered by --op new
ConnectProbe(t) ==
    /\ pc[t] = "probe"
    /\ \E out \in Iscsiadm(<<>>, Key(rec[call[t].r])) :
        LET tr == Append(trace[t], Event(<<>>, rec[call[t].r], out))
        IN  /\ _run_iscsiadm(rec[call[t].r], <<>>, out)
            /\ IF Accepted(out.code, DefaultCheck)
               THEN Continue(t, AfterRegistration(t), tr)
               ELSE IF out.code \in ProbeNotFound
               THEN Continue(t, "new", tr)
               ELSE Raise(t, "ProcessExecutionError", tr)
    /\ IscsiadmFrame

ConnectNew(t) ==
    /\ pc[t] = "new"
    /\ IscsiadmStep(t, <<"--op", "new">>, DefaultCheck, AfterRegistration(t))

ConnectAuthMethod(t) ==
    /\ pc[t] = "auth_method"
    /\ IscsiadmStep(t, UpdateCommand("node.session.auth.authmethod",
                                     rec[call[t].r].auth_method),
                    DefaultCheck, "auth_username")

ConnectAuthUsername(t) ==
    /\ pc[t] = "auth_username"
    /\ IscsiadmStep(t, UpdateCommand("node.session.auth.username",
                                     rec[call[t].r].auth_username),
                    DefaultCheck, "auth_password")

ConnectAuthPassword(t) ==
    /\ pc[t] = "auth_password"
    /\ IscsiadmStep(t, UpdateCommand("node.session.auth.password",
                                     rec[call[t].r].auth_password),
                    DefaultCheck, "login")

ConnectLogin(t) ==
    /\ pc[t] = "login"
    /\ IscsiadmStep(t, <<"--login">>, LoginCheck, "startup")

ConnectStartup(t) ==
    /\ pc[t] = "startup"
    /\ IscsiadmStep(t, UpdateCommand("node.startup", "automatic"),
                    ConnectStartupCheck, "resolve")

\* iscsi_properties.get('target_lun', 0), formatted with %s
TargetLun(iscsi_properties) ==
    IF iscsi_properties.target_lun = Missing THEN "0"
    ELSE iscsi_properties.target_lun

\* the record after the EC2 device was found
Ec2Rewrite(iscsi_properties, device_ec2id) ==
    [iscsi_properties EXCEPT !.target_iqn = Ec2TargetIqn(device_ec2id)]

\* host_device, and the substitution of an existing EC2 id based device
ConnectResolve(t) ==
    LET r == call[t].r
        iscsi_properties == rec[r]
        device_ec2id == Ec2Path(iscsi_properties.volume_id)
    IN  /\ pc[t] = "resolve"
        /\ IF os_path_exists(device_ec2id)
           THEN /\ host_device' = [host_device EXCEPT ![t] = device_ec2id]
                /\ rec' = [rec EXCEPT ![r] =
                              Ec2Rewrite(iscsi_properties, device_ec2id)]
           ELSE /\ host_device' = [host_device EXCEPT ![t] =
                        DevicePrefix(iscsi_properties.target_portal,
                                     iscsi_properties.target_iqn)
                        \o <<TargetLun(iscsi_properties)>>]
                /\ rec' = rec
        /\ tries' = [tries EXCEPT ![t] = 0]
        /\ Stay(t, "poll",
                Append(trace[t],
                       ExistsEvent(device_ec2id, os_path_exists(device_ec2id))))
        /\ UNCHANGED <<devices, session, devnodes, legacy, active, budget,
                       ncalls, num_iscsi_scan_tries, prev, callers>>

TriesExhausted_OneMore(n, limit) == n > limit

\* if tries >= FLAGS.num_iscsi_scan_tries
TriesExhausted(n, limit) == n >= limit

\* the condition of the while loop and the check of the try budget
ConnectPoll(t) ==
    /\ pc[t] = "poll"
    /\ LET found == os_path_exists(host_device[t])
           tr == Append(trace[t], ExistsEvent(host_device[t], found))
       IN  IF found
           THEN Continue(t, "finish", tr)
           ELSE IF TriesExhausted(tries[t], num_iscsi_scan_tries)
           THEN Raise(t, "NovaException", tr)
           ELSE Continue(t, "rescan", tr)
    /\ UNCHANGED <<rec, session, devnodes, legacy, active, budget, ncalls,
                   num_iscsi_scan_tries, prev, callers>>

ConnectRescan(t) ==
    /\ pc[t] = "rescan"
    /\ \E out \in Iscsiadm(<<"--rescan">>, Key(rec[call[t].r])) :
        LET tr == Append(trace[t],
                         Event(<<"--rescan">>, rec[call[t].r], out))
        IN  /\ _run_iscsiadm(rec[call[t].r], <<"--rescan">>, out)
            /\ IF Accepted(out.code, DefaultCheck)
               THEN /\ Stay(t, "recheck", tr)
                    /\ tries' = [tries EXCEPT ![t] = @ + 1]
                    /\ UNCHANGED <<host_device, devices>>
               ELSE Raise(t, "ProcessExecutionError", tr)
    /\ IscsiadmFrame

SleepEvent(secs) ==
    [cmd |-> <<"sleep">>, iqn |-> <<>>, portal |-> "", input |-> "",
     code |-> secs, abnormal |-> FALSE]

ConnectRecheck_AlwaysSleeps(t) ==
    /\ pc[t] = "recheck"
    /\ LET found == os_path_exists(host_device[t])
           tr == Append(trace[t], ExistsEvent(host_device[t], found))
       IN  Continue(t, "poll", Append(tr, SleepEvent(tries[t] * tries[t])))
    /\ UNCHANGED <<rec, session, devnodes, legacy, active, budget, ncalls,
                   num_iscsi_scan_tries, prev, callers>>

\* time.sleep(tries ** 2) if the device is still not there
ConnectRecheck(t) ==
    /\ pc[t] = "recheck"
    /\ LET found == os_path_exists(host_device[t])
           tr == Append(trace[t], ExistsEvent(host_device[t], found))
       IN  Continue(t, "poll",
                    IF ~found
                    THEN Append(tr, SleepEvent(tries[t] * tries[t]))
                    ELSE tr)
    /\ UNCHANGED <<rec, session, devnodes, legacy, active, budget, ncalls,
                   num_iscsi_scan_tries, prev, callers>>

\* the record with the resolved device path stored in it
WithDevicePath(iscsi_properties, path) ==
    [iscsi_properties EXCEPT !.device_path = path]

ConnectFinish(t) ==
    LET r == call[t].r
        data == WithDevicePath(rec[r], host_device[t])
        conf == BaseConnectVolume(data, mount_device(r))
    IN  /\ pc[t] = "finish"
        /\ rec' = [rec EXCEPT ![r] = data]
        /\ Return(t, conf, trace[t], data)
        /\ prev' = IF prev.again = t THEN prev
                   ELSE [r |-> r, conf |-> conf, again |-> NoThread]
        /\ UNCHANGED <<session, devnodes, legacy, active, budget, ncalls,
                       num_iscsi_scan_tries, callers>>

\* ---------------------------- LibvirtISCSIVolumeDriver.disconnect_volume
\* devices = [dev for dev in devices if dev.startswith(device_prefix)]
FilterDevices(all_devices, device_prefix) ==
    {dev \in all_devices : startswith(dev, device_prefix)}

TeardownBranch_AlwaysLogout(devs) == "d_startup"

\* if not devices: tear the session down, else only delete the device
TeardownBranch(devs) == IF devs = {} THEN "d_startup" ELSE "d_device"

\* list the block devices in use and choose between the two teardowns
DisconnectList(t) ==
    LET iscsi_properties == rec[call[t].r]
        device_prefix == DevicePrefix(iscsi_properties.target_portal,
                                      iscsi_properties.target_iqn)
        devs == FilterDevices(active, device_prefix)
    IN  /\ pc[t] = "list"
        /\ Stay(t, TeardownBranch(devs), trace[t])
        /\ devices' = [devices EXCEPT ![t] = devs]
        /\ UNCHANGED <<tries, host_device>>
        /\ UNCHANGED <<rec, session, devnodes, legacy, active, budget, ncalls,
                       num_iscsi_scan_tries, prev, callers>>

DisconnectStartup(t) ==
    /\ pc[t] = "d_startup"
    /\ IscsiadmStep(t, UpdateCommand("node.startup", "manual"),
                    TeardownCheck, "d_logout")

DisconnectLogout(t) ==
    /\ pc[t] = "d_logout"
    /\ IscsiadmStep(t, <<"--logout">>, TeardownCheck, "d_delete")

DisconnectDelete(t) ==
    /\ pc[t] = "d_delete"
    /\ \E out \in Iscsiadm(<<"--op", "delete">>, Key(rec[call[t].r])) :
        LET tr == Append(trace[t],
                         Event(<<"--op", "delete">>, rec[call[t].r], out))
        IN  /\ _run_iscsiadm(rec[call[t].r], <<"--op", "delete">>, out)
            /\ IF Accepted(out.code, TeardownCheck)
               THEN Return(t, NoConf, tr, rec[call[t].r])
               ELSE Raise(t, "ProcessExecutionError", tr)
    /\ IscsiadmFrame

CpEvent(delete_ctl_file, code) ==
    [cmd |-> <<"cp", "/dev/stdin">> \o delete_ctl_file, iqn |-> <<>>,
     portal |-> "", input |-> "1", code |-> code, abnormal |-> code # 0]

\* exit codes of  cp /dev/stdin <ctl file>  run as root
CpCodes == {0} \cup (IF budget > 0 THEN {1} ELSE {})

HasTargetLun_Always(iscsi_properties) == TRUE

\* 'target_lun' in iscsi_properties
HasTargetLun(iscsi_properties) == iscsi_properties.target_lun # Missing

\* the session stays: delete only the device of the disconnected volume
DisconnectDevice(t) ==
    LET iscsi_properties == rec[call[t].r]
        device_prefix == DevicePrefix(iscsi_properties.target_portal,
                                      iscsi_properties.target_iqn)
        hdev == device_prefix \o <<iscsi_properties.target_lun>>
        device_shortname == basename(os_path_realpath(hdev))
        delete_ctl_file == DeleteCtlFile(device_shortname)
        found == os_path_exists(delete_ctl_file)
        probed == Append(trace[t], ExistsEvent(delete_ctl_file, found))
    IN  /\ pc[t] = "d_device"
        /\ IF ~HasTargetLun(iscsi_properties)
           THEN /\ Return(t, NoConf, trace[t], iscsi_properties)
                /\ UNCHANGED <<budget, devnodes>>
           ELSE IF found
           THEN \E code \in CpCodes :
                  LET tr == Append(probed, CpEvent(delete_ctl_file, code))
                  IN  /\ budget' = IF code = 0 THEN budget ELSE budget - 1
                      /\ devnodes' = IF code = 0
                                     THEN {d \in devnodes :
                                             <<KernelName(d)>> # device_shortname}
                                     ELSE devnodes
                      /\ IF Accepted(code, DefaultCheck)
                         THEN Return(t, NoConf, tr, iscsi_properties)
                         ELSE Raise(t, "ProcessExecutionError", tr)
           ELSE /\ Return(t, NoConf, probed, iscsi_properties)
                /\ UNCHANGED <<budget, devnodes>>
        /\ UNCHANGED <<rec, session, legacy, active, ncalls,
                       num_iscsi_scan_tries, prev, callers>>

\* ------------------------------------------------------ the environment
\* udev creates the by-path node of a LUN of a logged-in session
DeviceAppear(d) ==
    /\ d \notin devnodes
    /\ \E k \in ServedKeys : d \in DevicesOf(k) /\ session[k] = "LoggedIn"
    /\ devnodes' = devnodes \cup {d}
    /\ prev' = NoPrev
    /\ UNCHANGED <<rec, lock, pc, call, rec0, tries, host_device, devices,
                   trace, last, pending, session, legacy, active, budget,
                   ncalls, num_iscsi_scan_tries, callers, aborted,
                   login_key>>

\* the caller attaches the disk connect_volume described to a guest
AttachVolume(p) ==
    /\ p \in pending
    /\ pending' = pending \ {p}
    /\ active' = active \cup {p}
    /\ prev' = NoPrev
    /\ UNCHANGED <<rec, lock, pc, call, rec0, tries, host_device, devices,
                   trace, last, session, devnodes, legacy, budget, ncalls,
                   num_iscsi_scan_tries, callers, aborted,
                   login_key>>

\* a disk is detached from its guest
DetachVolume(p) ==
    /\ p \in active
    /\ active' = active \ {p}
    /\ prev' = NoPrev
    /\ UNCHANGED <<rec, lock, pc, call, rec0, tries, host_device, devices,
                   trace, last, session, devnodes, legacy, budget, ncalls,
                   num_iscsi_scan_tries, callers, pending, aborted,
                   login_key>>

AllPaths == ServedDevices \cup LegacyPaths

Next ==
    \/ \E t \in Threads, op \in {"connect", "disconnect"}, r \in Records :
            Call(t, op, r)
    \/ \E t \in Threads, r \in Records : Retry(t, r)
    \/ \E t \in Threads : Acquire(t)
    \/ \E t \in Threads : ConnectProbe(t)
    \/ \E t \in Threads : ConnectNew(t)
    \/ \E t \in Threads : ConnectAuthMethod(t)
    \/ \E t \in Threads : ConnectAuthUsername(t)
    \/ \E t \in Threads : ConnectAuthPassword(t)
    \/ \E t \in Threads : ConnectLogin(t)
    \/ \E t \in Threads : ConnectStartup(t)
    \/ \E t \in Threads : ConnectResolve(t)
    \/ \E t \in Threads : ConnectPoll(t)
    \/ \E t \in Threads : ConnectRescan(t)
    \/ \E t \in Threads : ConnectRecheck(t)
    \/ \E t \in Threads : ConnectFinish(t)
    \/ \E t \in Threads : DisconnectList(t)
    \/ \E t \in Threads : DisconnectStartup(t)
    \/ \E t \in Threads : DisconnectLogout(t)
    \/ \E t \in Threads : DisconnectDelete(t)
    \/ \E t \in Threads : DisconnectDevice(t)
    \/ \E p \in AllPaths : AttachVolume(p)
    \/ \E d \in ServedDevices : DeviceAppear(d)
    \/ \E p \in AllPaths : DetachVolume(p)

Spec == Init /\ [][Next]_vars

TypeOK ==
    /\ pc \in [Threads -> {"idle", "wait_lock", "probe", "new", "auth_method",
                           "auth_username", "auth_password", "login", "startup",
                           "resolve", "poll", "rescan", "recheck", "finish",
                           "list", "d_startup", "d_logout", "d_delete",
                           "d_device"}]
    /\ lock \in [LockNames -> Threads \cup {NoThread}]
    /\ session \in [AllKeys -> SessionStates]
    /\ devnodes \subseteq ServedDevices
    /\ active \subseteq AllPaths
    /\ pending \subseteq AllPaths
    /\ budget \in 0..MaxFaults
    /\ ncalls \in 0..(MaxCalls + 1)
    /\ aborted \in Records \cup {"none"}
    /\ \A t \in Threads : tries[t] \in 0..num_iscsi_scan_tries
    /\ last.t \in Threads \cup {NoThread}

\* ================================================================ claims
InBody(t) == pc[t] \notin {"idle", "wait_lock"}

\* the call that completed last
Connected == last.op = "connect" /\ last.status = "returned"
ConnectFailed == last.op = "connect" /\ last.status = "raised"
Disconnected == last.op = "disconnect" /\ last.status = "returned"

\* events of a trace
Kind(e) == IF e.cmd = <<>> THEN "status" ELSE e.cmd[1]
IsIscsiadm(e) == Kind(e) \notin {"exists", "sleep", "cp"}
Where(tr, c) == {i \in 1..Len(tr) : tr[i].cmd = c}
Writes(tr) == {i \in 1..Len(tr) : Kind(tr[i]) = "cp"}
StartupCmd(mode) == UpdateCommand("node.startup", mode)

\* the invocation the call failed in
FailedAt(i) ==
    /\ last.status = "raised"
    /\ last.error = "ProcessExecutionError"
    /\ i = Len(last.trace)

\* the by-path node of the record's LUN
CanonicalDevice(data) ==
    DevicePrefix(data.target_portal, data.target_iqn) \o <<TargetLun(data)>>

\* C1: a thread is in the body of connect_volume or disconnect_volume only
\* while it holds the operation lock, from before its first iscsiadm
\* invocation until the call returned or failed, and no two threads are in
\* the body of the same operation at the same time.
C1_OneCallAtATime ==
    \A t \in Threads :
        /\ InBody(t) => lock[LockName(call[t].op)] = t
        /\ trace[t] # <<>> => InBody(t)
        /\ \A u \in Threads \ {t} :
              ~(InBody(t) /\ InBody(u) /\ call[t].op = call[u].op)

\* C1 witness: one connect has run iscsiadm while another connect waits
C1_Witness ==
    \E t, u \in Threads :
        /\ t # u
        /\ InBody(t) /\ call[t].op = "connect" /\ trace[t] # <<>>
        /\ pc[u] = "wait_lock" /\ call[u].op = "connect"

\* C2: a connect and a disconnect never overlap: while one thread is in the
\* body of connect_volume no other thread is in the body of disconnect_volume.
C2_ConnectExcludesDisconnect ==
    \A t, u \in Threads :
        ~(/\ InBody(t) /\ call[t].op = "connect"
          /\ InBody(u) /\ call[u].op = "disconnect")

\* C2 witness: a connect between two of its invocations, a disconnect waiting
C2_Witness ==
    \E t, u \in Threads :
        /\ InBody(t) /\ call[t].op = "connect" /\ trace[t] # <<>>
        /\ pc[u] = "wait_lock" /\ call[u].op = "disconnect"

\* C9: a call that failed, at whatever step, no longer holds the lock, and
\* a lock that is held is held by a thread still running its body, so a
\* waiting call is never kept out by a call that is over.
C9_FailureReleasesLock ==
    /\ last.status = "raised" /\ ~InBody(last.t) =>
          \A n \in LockNames : lock[n] # last.t
    /\ \A n \in LockNames : lock[n] # NoThread => InBody(lock[n])

\* C9 witness: a call has failed in an invocation, and the lock another
\* thread waits for is free
C9_Witness ==
    \E u \in Threads :
        /\ last.status = "raised" /\ last.trace # <<>>
        /\ u # last.t
        /\ pc[u] = "wait_lock" /\ lock[LockName(call[u].op)] = NoThread


\* a disconnect that found a device of its target still in use
PartialTeardown ==
    last.op = "disconnect" /\ last.status # "none" /\ last.devices # {}

\* C3 as claimed: with a sibling LUN listed as active, the disconnect runs
\* neither the startup-mode update nor logout nor delete, and writes "1" to
\* the deletion control file exactly once.
C3_TeardownSafety ==
    /\ PartialTeardown
    /\ last.rec0.target_lun # Missing
    /\ last.devices # {CanonicalDevice(last.rec0)}
    =>
        /\ \A i \in 1..Len(last.trace) :
              last.trace[i].cmd \notin
                  {StartupCmd("manual"), <<"--logout">>, <<"--op", "delete">>}
        /\ Cardinality(Writes(last.trace)) = 1
        /\ \A i \in Writes(last.trace) : last.trace[i].input = "1"

\* C3 as amended: with a sibling LUN listed as active, the disconnect runs
\* no iscsiadm invocation at all, and writes "1" at most once, to the
\* deletion control file of the record's LUN: exactly once if the record has
\* a LUN and that file exists, not at all otherwise.
C3_TeardownSafetyAmended ==
    PartialTeardown =>
        LET tr == last.trace
            data == last.rec0
            ctl == DeleteCtlFile(<<KernelName(CanonicalDevice(data))>>)
        IN  /\ \A i \in 1..Len(tr) : ~IsIscsiadm(tr[i])
            /\ Cardinality(Writes(tr)) <= 1
            /\ \A i \in Writes(tr) :
                  /\ tr[i].input = "1"
                  /\ tr[i].cmd = <<"cp", "/dev/stdin">> \o ctl
            /\ Writes(tr) # {} <=>
                  /\ data.target_lun # Missing
                  /\ \E i \in 1..Len(tr) :
                        Kind(tr[i]) = "exists" /\ tr[i].code = 1

\* C3 witness: the device of the disconnected LUN was deleted while the
\* device of the sibling LUN stayed in use
C3_Witness ==
    /\ PartialTeardown
    /\ last.status = "returned"
    /\ Cardinality(Writes(last.trace)) = 1
    /\ CanonicalDevice(last.rec0) \notin last.devices

\* what follows the probe in the invocations tr of a connect; over says
\* whether the call is over
ProbeHandled(tr, over, failed) ==
    /\ tr[1].cmd = <<>>
    /\ tr[1].code \in {21, 255} =>
          /\ Len(tr) = 1 => ~over
          /\ Len(tr) >= 2 => tr[2].cmd = <<"--op", "new">>
    /\ tr[1].code \notin {0, 21, 255} =>
          /\ Len(tr) = 1
          /\ over /\ failed

\* C4: the first invocation of connect is the probe; after exit code 21 or
\* 255 the next invocation is --op new and the call goes on; after any other
\* non-zero code the call fails with the tool error and invokes nothing more.
C4_ProbeExitCodes ==
    /\ \A t \in Threads :
          call[t].op = "connect" /\ trace[t] # <<>> =>
              /\ ProbeHandled(trace[t], FALSE, FALSE)
              /\ Len(trace[t]) = 1 /\ trace[t][1].code \in {21, 255} =>
                    pc[t] = "new"
    /\ last.op = "connect" /\ last.trace # <<>> =>
          ProbeHandled(last.trace, TRUE,
                       last.status = "raised"
                       /\ last.error = "ProcessExecutionError")

\* C4 witness: a connect succeeded after its probe answered 255
C4_Witness ==
    /\ Connected
    /\ last.trace[1].code = 255
    /\ last.trace[2].cmd = <<"--op", "new">>

\* the rescans and sleeps of a trace, as <<command, exit code or seconds>>
IsLoopEvent(e) == e.cmd = <<"--rescan">> \/ e.cmd = <<"sleep">>
Loop(tr) ==
    LET l == SelectSeq(tr, IsLoopEvent)
    IN  [i \in 1..Len(l) |-> <<l[i].cmd, l[i].code>>]

RECURSIVE Backoff(_)
Backoff(n) ==
    IF n = 0 THEN <<>>
    ELSE Backoff(n - 1) \o << <<<<"--rescan">>, 0>>, <<<<"sleep">>, n * n>> >>

ToolNormal == \A i \in 1..Len(last.trace) : ~last.trace[i].abnormal

\* C6 as claimed: a connect repeated with the same record, nothing else
\* having happened in between and the tool answering normally, returns the
\* descriptor the first one returned and leaves the session of the record
\* logged in.
C6_ConnectIdempotent ==
    /\ last.op = "connect" /\ last.status # "none"
    /\ prev.again = last.t /\ prev.r = last.r
    /\ ToolNormal
    => /\ last.status = "returned"
       /\ last.conf = prev.conf
       /\ session[Key(rec[last.r])] = "LoggedIn"

\* C7 as claimed: a call leaves every field of the record as it found it.
C7_RecordReadOnly ==
    last.status # "none" => last.rec1 = last.rec0

\* C8: the descriptor's source path is the UUID-template link if that is a
\* link, else the EC2-style link if that is a link; it is the by-path device
\* node only if neither is a link, and it is that node whenever no legacy
\* file exists at all.
C8_LegacyPrecedence ==
    Connected =>
        LET data == last.rec0
            uuid == UuidPath(data.volume_id)
            ec2 == Ec2Path(data.volume_id)
            source == last.conf.source_path
        IN  /\ os_path_islink(uuid) => source = uuid
            /\ ~os_path_islink(uuid) /\ os_path_islink(ec2) => source = ec2
            /\ source = CanonicalDevice(data) =>
                  ~os_path_islink(uuid) /\ ~os_path_islink(ec2)
            /\ legacy[uuid] = "absent" /\ legacy[ec2] = "absent" =>
                  source = CanonicalDevice(data)

\* C8 witness: both legacy links and the by-path node exist, and the
\* descriptor names the UUID-template link
C8_Witness ==
    /\ Connected
    /\ os_path_islink(UuidPath(last.rec0.volume_id))
    /\ os_path_islink(Ec2Path(last.rec0.volume_id))
    /\ CanonicalDevice(last.rec0) \in devnodes
    /\ last.conf.source_path = UuidPath(last.rec0.volume_id)

\* C10 as claimed: no call fails in a startup-mode update that exits with
\* 0, 21 or 255.
C10_StartupTolerant ==
    \A i \in 1..Len(last.trace) :
        /\ last.trace[i].cmd \in {StartupCmd("automatic"), StartupCmd("manual")}
        /\ last.trace[i].code \in {0, 21, 255}
        => ~FailedAt(i)

\* C10 as amended: the update to "manual" of a full teardown fails the
\* disconnect exactly if it exits with a code other than 0, 21 and 255; the
\* update to "automatic" fails the connect exactly if it exits with a code
\* other than 0, so 21 and 255 abort the connect.
C10_StartupAmended ==
    \A i \in 1..Len(last.trace) :
        /\ last.trace[i].cmd = StartupCmd("manual") =>
              /\ last.op = "disconnect"
              /\ FailedAt(i) <=> last.trace[i].code \notin {0, 21, 255}
        /\ last.trace[i].cmd = StartupCmd("automatic") =>
              /\ last.op = "connect"
              /\ FailedAt(i) <=> last.trace[i].code # 0

\* C10 witness: a connect failed in the startup-mode update that exited 21
C10_Witness ==
    /\ ConnectFailed
    /\ last.trace # <<>>
    /\ last.trace[Len(last.trace)].cmd = StartupCmd("automatic")
    /\ last.trace[Len(last.trace)].code = 21
    /\ FailedAt(Len(last.trace))

\* a disconnect of a record that has no LUN identifier
NoLunDisconnect ==
    /\ last.op = "disconnect" /\ last.status # "none"
    /\ last.rec0.target_lun = Missing

\* C11 as claimed: a disconnect of a record without LUN identifier issues no
\* startup-mode update, no logout, no delete-session and no write to a
\* deletion control file, whether or not devices of the target are active.
C11_NoLunNoAction ==
    NoLunDisconnect =>
        \A i \in 1..Len(last.trace) :
            /\ last.trace[i].cmd \notin
                  {StartupCmd("manual"), <<"--logout">>, <<"--op", "delete">>}
            /\ Kind(last.trace[i]) # "cp"

\* C11 as amended: a disconnect of a record without LUN identifier returns
\* without any action if devices of the target are listed as active; if none
\* is listed it runs the full teardown, beginning with the startup-mode
\* update to manual, and still writes no deletion control file.
C11_NoLunAmended ==
    NoLunDisconnect =>
        /\ last.devices # {} =>
              last.status = "returned" /\ last.trace = <<>>
        /\ last.devices = {} =>
              /\ last.trace # <<>>
              /\ last.trace[1].cmd = StartupCmd("manual")
              /\ \A i \in 1..Len(last.trace) : IsIscsiadm(last.trace[i])

\* C11 witness: the record has no LUN, a sibling device is in use, and the
\* disconnect returned
C11_Witness ==
    /\ NoLunDisconnect
    /\ last.devices # {}
    /\ last.status = "returned"

\* the commands of a trace
Commands(tr) == [i \in 1..Len(tr) |-> tr[i].cmd]

\* the invocations of a full teardown
TeardownOrder ==
    <<StartupCmd("manual"), <<"--logout">>, <<"--op", "delete">> >>

\* the invocations tr of a disconnect that found no device in use; over
\* says whether the call is over and failed whether it raised the tool error
FullTeardown(tr, over, failed) ==
    /\ Len(tr) <= 3
    /\ Commands(tr) = SubSeq(TeardownOrder, 1, Len(tr))
    /\ \A i \in 1..Len(tr) :
          IF tr[i].code \in {0, 21, 255}
          THEN ~(failed /\ i = Len(tr))
          ELSE over /\ failed /\ i = Len(tr)
    /\ over /\ ~failed => Len(tr) = 3

\* C12: a disconnect that finds no active device of the target issues the
\* startup-mode update to manual, logout and delete-session, in that order
\* and nothing else; exit codes 0, 21 and 255 of each let the call go on, any
\* other exit code ends the call with the tool error before the remaining
\* invocations; no deletion control file is written.
C12_FullTeardown ==
    /\ \A t \in Threads :
          pc[t] \in {"d_startup", "d_logout", "d_delete"} =>
              /\ devices[t] = {}
              /\ FullTeardown(trace[t], FALSE, FALSE)
    /\ last.op = "disconnect" /\ last.status # "none" /\ last.devices = {} =>
          FullTeardown(last.trace, TRUE,
                       last.status = "raised"
                       /\ last.error = "ProcessExecutionError")

\* C12 witness: the teardown went through although the startup-mode update
\* exited with 255, and it logged a live session out and deleted it
C12_Witness ==
    /\ Disconnected
    /\ last.devices = {}
    /\ Len(last.trace) = 3
    /\ last.trace[1].code = 255
    /\ last.trace[2].code = 0
    /\ last.trace[3].code = 0

\* the three auth updates of a record, in the order of the code
AuthOrder(data) ==
    <<UpdateCommand("node.session.auth.authmethod", data.auth_method),
      UpdateCommand("node.session.auth.username", data.auth_username),
      UpdateCommand("node.session.auth.password", data.auth_password)>>

IsAuthUpdate(e) ==
    /\ IsUpdate(e.cmd)
    /\ e.cmd[4] \in {"node.session.auth.authmethod",
                     "node.session.auth.username",
                     "node.session.auth.password"}

\* the auth updates among the invocations tr of a connect of record data
AuthApplied(tr, data, over, failed) ==
    LET first == IF tr[1].code = 0 THEN 2 ELSE 3
        auth == {i \in 1..Len(tr) : IsAuthUpdate(tr[i])}
        logins == Where(tr, <<"--login">>)
    IN  IF data.auth_method = Missing
        THEN /\ auth = {}
             /\ Len(tr) >= first => tr[first].cmd = <<"--login">>
        ELSE /\ auth = first..(first + Cardinality(auth) - 1)
             /\ Cardinality(auth) <= 3
             /\ Len(tr) >= first => first \in auth
             /\ \A i \in auth :
                   /\ tr[i].cmd = AuthOrder(data)[i - first + 1]
                   /\ tr[i].code # 0 => i = Len(tr) /\ over /\ failed
                   /\ tr[i].code = 0 /\ i = Len(tr) => ~over
             /\ \A j \in logins :
                   /\ j = first + 3
                   /\ \A i \in first..(first + 2) :
                         i \in auth /\ tr[i].code = 0

\* C13: a connect of a record with an auth method issues the updates of
\* authmethod, username and password, in that order, right after
\* registration and before the login; an update that fails is the last
\* invocation of the call, which raises; a connect of a record without auth
\* method issues no auth update and logs in right after registration.
C13_AuthOrder ==
    /\ \A t \in Threads :
          call[t].op = "connect" /\ trace[t] # <<>> =>
              AuthApplied(trace[t], rec0[t], FALSE, FALSE)
    /\ last.op = "connect" /\ last.trace # <<>> =>
          AuthApplied(last.trace, last.rec0, TRUE,
                      last.status = "raised"
                      /\ last.error = "ProcessExecutionError")

\* C13 witness: a connect with CHAP credentials succeeded
C13_Witness ==
    /\ Connected
    /\ last.rec0.auth_method = "CHAP"
    /\ Cardinality({i \in 1..Len(last.trace) :
                       IsAuthUpdate(last.trace[i])}) = 3

\* what follows the login among the invocations tr of a connect; at says
\* where a call still running is
LoginHandled(tr, over, failed, at) ==
    \A j \in Where(tr, <<"--login">>) :
        IF tr[j].code \in {0, 255}
        THEN /\ j = Len(tr) => ~over /\ at = "startup"
             /\ j < Len(tr) => tr[j + 1].cmd = StartupCmd("automatic")
        ELSE j = Len(tr) /\ over /\ failed

\* C14: after a login that exits with 0 or 255 the connect goes on to the
\* startup-mode update; a login that exits with any other code is the last
\* invocation of the call, which raises the tool error and returns no
\* descriptor.
C14_LoginExitCodes ==
    /\ \A t \in Threads :
          call[t].op = "connect" =>
              LoginHandled(trace[t], FALSE, FALSE, pc[t])
    /\ last.op = "connect" =>
          LoginHandled(last.trace, TRUE,
                       /\ last.status = "raised"
                       /\ last.error = "ProcessExecutionError"
                       /\ last.conf = NoConf,
                       "idle")

\* C14 witness: a connect succeeded whose login exited with 255
C14_Witness ==
    /\ Connected
    /\ \E j \in Where(last.trace, <<"--login">>) : last.trace[j].code = 255

\* the invocations of a connect of record data up to the legacy check,
\* given the exit code of its probe
ConnectOrder(data, probe_code) ==
    <<<<>>>>
    \o (IF probe_code \in {21, 255} THEN << <<"--op", "new">> >> ELSE <<>>)
    \o (IF data.auth_method # Missing THEN AuthOrder(data) ELSE <<>>)
    \o << <<"--login">>, StartupCmd("automatic"),
          <<"exists">> \o Ec2Path(data.volume_id) >>

\* tr begins as ConnectOrder says, as far as it goes
InConnectOrder(tr, data) ==
    tr # <<>> =>
        LET order == ConnectOrder(data, tr[1].code)
            m == IF Len(tr) < Len(order) THEN Len(tr) ELSE Len(order)
        IN  SubSeq(Commands(tr), 1, m) = SubSeq(order, 1, m)

\* the device wait of a successful connect: after the legacy check only
\* checks of the resolved path, rescans and sleeps, ending with the check
\* that found the path
WaitedForDevice(tr, data, path) ==
    LET n == Len(ConnectOrder(data, tr[1].code))
    IN  /\ Len(tr) > n
        /\ path = IF tr[n].code = 1 THEN Ec2Path(data.volume_id)
                  ELSE CanonicalDevice(data)
        /\ \A i \in (n + 1)..Len(tr) :
              /\ Kind(tr[i]) \in {"exists", "--rescan", "sleep"}
              /\ Kind(tr[i]) = "exists" =>
                    /\ tr[i].cmd = <<"exists">> \o path
                    /\ tr[i].code = 1 =>
                          \A j \in i..Len(tr) : tr[j] = ExistsEvent(path, TRUE)
        /\ tr[Len(tr)] = ExistsEvent(path, TRUE)

\* C15: the invocations of every connect follow the order probe, create
\* (only after a not-found probe), auth updates (only with an auth method),
\* login, startup-mode automatic, legacy check, all under the lock; the
\* login is issued only for a session that exists; a successful connect then
\* only waits for the resolved path, issues nothing more once a check has
\* found it, and the path it stored in the record exists.
C15_ConnectOrder ==
    /\ \A t \in Threads :
          call[t].op = "connect" /\ InBody(t) =>
              /\ lock[ConnectLockName] = t
              /\ InConnectOrder(trace[t], rec0[t])
              /\ pc[t] = "login" =>
                    SessionExists(session[Key(rec[call[t].r])])
    /\ last.op = "connect" => InConnectOrder(last.trace, last.rec0)
    /\ Connected =>
          /\ WaitedForDevice(last.trace, last.rec0, last.rec1.device_path)
          /\ os_path_exists(last.rec1.device_path)
          /\ last.conf.source_type = "block"

\* C15 witness: a successful connect that created the node record, set the
\* credentials and had to rescan for the device
C15_Witness ==
    /\ Connected
    /\ last.trace[2].cmd = <<"--op", "new">>
    /\ last.rec0.auth_method = "CHAP"
    /\ Where(last.trace, <<"--rescan">>) # {}

\* a connect of the record whose connect was aborted just before; the tool
\* answered it normally and it did not give up waiting for the device
RetriedConnect ==
    /\ last.op = "connect" /\ last.status # "none"
    /\ last.after = last.r
    /\ ToolNormal
    /\ ~(last.status = "raised" /\ last.error = "NovaException")

\* C16 as claimed: a connect that follows an aborted connect of the same
\* record, with the tool answering normally and the device present,
\* succeeds and leaves the session of the record logged in.
C16_RecoversAfterAbort ==
    RetriedConnect =>
        /\ last.status = "returned"
        /\ session[Key(last.rec0)] = "LoggedIn"

\* the rescans and the sleeps of a trace
Rescans(tr) == Cardinality(Where(tr, <<"--rescan">>))
Sleeps(tr) == Cardinality(Where(tr, <<"sleep">>))

\* the first check that found the path a successful connect waited for
FirstFound(tr, n) ==
    CHOOSE i \in (n + 1)..Len(tr) :
        /\ Kind(tr[i]) = "exists" /\ tr[i].code = 1
        /\ \A j \in (n + 1)..(i - 1) :
              ~(Kind(tr[j]) = "exists" /\ tr[j].code = 1)

\* C17: no connect runs more rescans than num_iscsi_scan_tries, and its try
\* counter is the number of its rescans; a successful connect that found
\* the path at the first check ran no rescan and slept not at all; one that
\* first found it right after its k-th rescan ran k rescans and slept k-1
\* times, for 1, 4, ..., (k-1)^2 seconds, with no sleep after that rescan.
C17_WaitBounded ==
    /\ \A t \in Threads :
          call[t].op = "connect" =>
              /\ Rescans(trace[t]) <= num_iscsi_scan_tries
              /\ Sleeps(trace[t]) <= Rescans(trace[t])
              /\ pc[t] \in {"poll", "rescan", "recheck", "finish"} =>
                    tries[t] = Rescans(trace[t])
    /\ Connected =>
          LET tr == last.trace
              n == Len(ConnectOrder(last.rec0, tr[1].code))
              f == FirstFound(tr, n)
              k == Rescans(tr)
          IN  /\ k <= num_iscsi_scan_tries
              /\ f = n + 1 => k = 0 /\ Sleeps(tr) = 0
              /\ f > n + 1 /\ Kind(tr[f - 1]) = "--rescan" =>
                    /\ k >= 1
                    /\ Sleeps(tr) = k - 1
                    /\ Loop(tr) = SubSeq(Backoff(k), 1, 2 * k - 1)

\* C17 witness: the device appeared right after the second rescan
C17_Witness ==
    /\ Connected
    /\ Rescans(last.trace) = 2
    /\ Sleeps(last.trace) = 1
    /\ Loop(last.trace) = SubSeq(Backoff(2), 1, 3)

\* a full teardown by the disconnect of a record whose connect succeeded
\* before, the tool answering normally
RoundTrip ==
    /\ Disconnected
    /\ last.devices = {}
    /\ last.login # NoKey
    /\ ToolNormal

\* C18 as claimed: a disconnect that follows a successful connect of the
\* same record and finds no device of the target in use issues logout and
\* delete-session for the (iqn, portal) the connect logged in to, and that
\* session ends Deleted.
C18_RoundTripSameKey ==
    RoundTrip =>
        LET tr == last.trace
            closing == Where(tr, <<"--logout">>)
                       \cup Where(tr, <<"--op", "delete">>)
        IN  /\ Where(tr, <<"--logout">>) # {}
            /\ Where(tr, <<"--op", "delete">>) # {}
            /\ \A i \in closing : <<tr[i].iqn, tr[i].portal>> = last.login
            /\ session[last.login] = "Deleted"

\* the connect of record a returned and no disconnect of a was called since
InUse(a) ==
    /\ login_key[a] # NoKey
    /\ \A t \in Threads : ~(call[t].op = "disconnect" /\ call[t].r = a)

\* C19 as claimed: while the connect of a LUN has returned and its
\* disconnect was not called, the session it logged in to stays logged in,
\* whatever disconnects of other LUNs of the target are interleaved.
C19_SiblingProtected ==
    \A a \in Records : InUse(a) => session[login_key[a]] = "LoggedIn"

====
